---------------------------- MODULE Spec2Model ----------------------------
(***************************************************************************)
(* Model of sendgrid_backend/mail.py (django-sendgrid-v5): the             *)
(* message-to-payload transformation SendgridBackend._build_sg_mail, the   *)
(* send loop SendgridBackend.send_messages and the diagnostic echo         *)
(* SendgridBackend.echo_to_output_stream.                                  *)
(*                                                                         *)
(* Python values are modelled as tagged records (PyVal) so that values of  *)
(* different Python types can be compared.  Text that the code parses      *)
(* (addresses, pool names, file names) is a sequence of one-character      *)
(* strings; text that the code only copies or compares with '' (bodies,    *)
(* header names, mime types) is a TLA+ string.                             *)
(***************************************************************************)
EXTENDS Naturals, Integers, Sequences, FiniteSets, TLC

VARIABLES
    listParse,      \* how email.utils.parseaddr treats a list argument
    bMsg0,          \* build harness: the message as handed to _build_sg_mail
    bMsg,           \* build harness: the message object after the call
    bOut,           \* build harness: what _build_sg_mail returned / raised
    bPc,            \* build harness: "ready" | "built"
    batch0,         \* send_messages: the messages as first handed in
    batch,          \* send_messages: the message objects (mutated in place)
    failSilently,   \* BaseEmailBackend.fail_silently
    idx,            \* send_messages: position of the for loop (1-based)
    success,        \* send_messages: the success counter
    posts,          \* every call of sg.client.mail.send.post, in order
    raised,         \* exception that left send_messages ("" when none)
    returned,       \* value returned by send_messages (-1 before return)
    pc,             \* send_messages: "loop" | "returned" | "raised"
    call,           \* number of the current send_messages call
    tInst,          \* echo: backend instance each thread calls
    instStream,     \* echo: stream each backend instance writes to
    lockOwner,      \* echo: per instance, owner of self._lock (0 = free)
    tPc,            \* echo: position of each thread
    tMsg,           \* echo: message each thread is echoing / sending
    stream,         \* echo: per stream, the writes made so far
    submitted       \* echo: per thread, messages submitted to the transport

vars == <<listParse, bMsg0, bMsg, bOut, bPc, batch0, batch, failSilently, idx,
          success, posts, raised, returned, pc, call, tInst, instStream,
          lockOwner, tPc, tMsg, stream, submitted>>

buildVars == <<bMsg0, bMsg, bOut, bPc>>
sendVars == <<batch0, batch, failSilently, idx, success, posts, raised,
              returned, pc, call>>
echoVars == <<tInst, instStream, lockOwner, tPc, tMsg, stream, submitted>>
notEchoVars == <<listParse, buildVars, sendVars>>

---------------------------------------------------------------------------
(* Python values *)

Absent == [t |-> "absent", s |-> <<>>, n |-> 0]   \* hasattr(...) is False
PyNone == [t |-> "none", s |-> <<>>, n |-> 0]
PyStr(cs) == [t |-> "str", s |-> cs, n |-> 0]
PyInt(k) == [t |-> "int", s |-> <<>>, n |-> k]

\* Python truthiness of a value
Truthy(v) ==
    CASE v.t = "str" -> Len(v.s) > 0
      [] v.t = "int" -> v.n # 0
      [] OTHER -> FALSE

\* n copies of the character c
Rep(c, n) == [k \in 1..n |-> c]

---------------------------------------------------------------------------
(* Address parsing *)

RECURSIVE IndexOf(_, _, _)
\* first position >= from of character c in cs, 0 when there is none
IndexOf(cs, c, from) ==
    IF from > Len(cs) THEN 0
    ELSE IF cs[from] = c THEN from
    ELSE IndexOf(cs, c, from + 1)

Has(cs, c) == IndexOf(cs, c, 1) > 0

RECURSIVE Strip(_)
\* str.strip() for blanks
Strip(cs) ==
    IF cs = <<>> THEN cs
    ELSE IF Head(cs) = " " THEN Strip(Tail(cs))
    ELSE IF cs[Len(cs)] = " " THEN Strip(SubSeq(cs, 1, Len(cs) - 1))
    ELSE cs

RECURSIVE Concat(_)
Concat(ss) == IF ss = <<>> THEN <<>> ELSE Head(ss) \o Concat(Tail(ss))

\* email.utils.parseaddr on a string: <<realname, address>>.  "Name <addr>"
\* and "<addr>" give the phrase and the route address, anything else is taken
\* as a bare address.
ParseAddrStr(cs) ==
    LET lt == IndexOf(cs, "<", 1)
        gt == IndexOf(cs, ">", lt + 1)
    IN IF lt > 0 /\ gt > lt
       THEN <<Strip(SubSeq(cs, 1, lt - 1)), Strip(SubSeq(cs, lt + 1, gt - 1))>>
       ELSE <<(<<>>), Strip(cs)>>

\* email.utils.parseaddr on a list (what line 194 passes when msg.reply_to is
\* a list).  The argument is outside parseaddr's documented domain and the
\* interpreters differ: "atoms" (CPython up to 3.11.x) scans the list items
\* as atoms and returns ('', their concatenation); "first" (CPython with the
\* strict parser) parses the first item.
ParseAddrList(items, lp) ==
    IF lp = "atoms" THEN <<(<<>>), Concat(items)>>
    ELSE ParseAddrStr(items[1])

\* SendgridBackend._parse_email_address: (addr, name), name None when empty.
\* arg is [list |-> BOOLEAN, items |-> <<strings>>]; a string is one item.
ParseEmailAddress(arg, lp) ==
    LET p == IF arg.list THEN ParseAddrList(arg.items, lp)
             ELSE ParseAddrStr(arg.items[1])
    IN [addr |-> PyStr(p[2]),
        name |-> IF p[1] = <<>> THEN PyNone ELSE PyStr(p[1])]

\* sendgrid.helpers.mail.Email.parse_email
SgParseEmail(cs) ==
    LET p == ParseAddrStr(cs)
        noAt == ~Has(p[2], "@")
        name == IF noAt THEN p[2] ELSE p[1]
        addr == IF noAt THEN <<>> ELSE p[2]
    IN [email |-> IF addr = <<>> THEN PyNone ELSE PyStr(addr),
        name |-> IF name = <<>> THEN PyNone ELSE PyStr(name)]

\* sendgrid.helpers.mail.Email(email, name): with no name the email text is
\* parsed as "Name <addr>"; with a name both are stored as given.
SgEmail(email, name) ==
    IF Truthy(email) /\ ~Truthy(name) THEN SgParseEmail(email.s)
    ELSE [email |-> email, name |-> name]

NoEmail == [email |-> Absent, name |-> Absent]    \* mail.reply_to is None

---------------------------------------------------------------------------
(* _build_sg_mail *)

MinPoolLen == 2
MaxPoolLen == 64

\* str.lower() on the header names the model uses
Lower(k) ==
    CASE k \in {"Reply-To", "reply-to", "REPLY-TO"} -> "reply-to"
      [] k = "X-Tag" -> "x-tag"
      [] OTHER -> k

\* lines 150-154: the loop over msg.extra_headers.items(), from position k on,
\* with acc = [reply_to, headers] built so far
RECURSIVE HeaderLoop(_, _, _)
HeaderLoop(hs, k, acc) ==
    IF k > Len(hs) THEN acc
    ELSE IF Lower(hs[k].k) = "reply-to"
         THEN HeaderLoop(hs, k + 1,
                         [acc EXCEPT !.reply_to = SgEmail(hs[k].v, PyNone)])
         ELSE HeaderLoop(hs, k + 1,
                         [acc EXCEPT !.headers = Append(@, hs[k])])

HeaderStep(m) ==
    HeaderLoop(m.extra_headers, 1, [reply_to |-> NoEmail, headers |-> <<>>])

\* lines 166-177: the two checks on msg.ip_pool_name; "" when it passes
IsString(v) == v.t = "str"

\* variant of PoolLenOk: both limits taken as exclusive
PoolLenOkExclusive(v) == MinPoolLen < Len(v.s) /\ Len(v.s) < MaxPoolLen

PoolLenOk(v) == MinPoolLen <= Len(v.s) /\ Len(v.s) <= MaxPoolLen

PoolNameError(v) ==
    IF ~IsString(v) THEN "ip_pool_name must be a string"
    ELSE IF ~PoolLenOk(v) THEN "ip_pool_name length"
    ELSE ""

\* lines 182-186
SendAtError(v) == IF v.t # "int" THEN "send_at must be an integer" ELSE ""

\* line 191: hasattr(msg, "reply_to") and msg.reply_to
ReplyToGiven(r) ==
    /\ r.has
    /\ IF r.list THEN Len(r.items) > 0 ELSE Len(r.items[1]) > 0

\* variant of ReplyToDiffers: the display names are not compared
ReplyToDiffersEmailOnly(a, b) == a.email # b.email

\* line 195: the header's identity against the field's
ReplyToDiffers(a, b) == a.email # b.email \/ a.name # b.name

\* lines 192-197: raised when the header set a reply-to and the field differs
ReplyToConflict(r, fromHeader, lp) ==
    /\ fromHeader # NoEmail
    /\ LET p == ParseEmailAddress(r, lp)
       IN ReplyToDiffers(SgEmail(p.addr, p.name), fromHeader)

\* lines 199-201
TooManyReplyTo(r) == r.list /\ Len(r.items) > 1

\* lines 202, 204: the identity taken from the field
ReplyToFromField(r, lp) ==
    LET p == ParseEmailAddress([list |-> FALSE, items |-> <<r.items[1]>>], lp)
    IN SgEmail(p.addr, p.name)

ReplyToError(r, fromHeader, lp) ==
    IF ~ReplyToGiven(r) THEN ""
    ELSE IF ReplyToConflict(r, fromHeader, lp)
         THEN "Reply-To header value != reply_to property value"
    ELSE IF TooManyReplyTo(r) THEN "only 1 email in the reply-to field"
    ELSE ""

ReplyToStep(r, fromHeader, lp) ==
    IF ReplyToGiven(r) THEN ReplyToFromField(r, lp) ELSE fromHeader

\* mimetypes.guess_extension on the content types the model uses; an unknown
\* type gives None, which "{1}".format renders as the text None
GuessExtension(ctype) ==
    CASE ctype = "image/png" -> <<".", "p", "n", "g">>
      [] ctype = "text/plain" -> <<".", "t", "x", "t">>
      [] OTHER -> <<"N", "o", "n", "e">>

\* line 213
SynthFilename(hex, ctype) ==
    <<"p", "a", "r", "t", "-">> \o hex \o GuessExtension(ctype)

\* lines 221-222
StripBrackets(cs) ==
    IF Len(cs) > 0 /\ cs[1] = "<" /\ cs[Len(cs)] = ">"
    THEN SubSeq(cs, 2, Len(cs) - 1) ELSE cs

\* lines 210-214: filename of a MIME-shaped attachment
MimeFilename(a, hex) ==
    IF Truthy(a.filename) THEN a.filename
    ELSE PyStr(SynthFilename(hex, a.ctype))

\* line 229: filename of a tuple-shaped attachment
TupleFilename(a) == a.filename

\* lines 207-237: one attachment of the payload
BuildAttachment(a, hex) ==
    IF a.mime
    THEN [filename |-> MimeFilename(a, hex),
          type |-> a.ctype,
          content_id |-> IF Truthy(a.content_id)
                         THEN PyStr(StripBrackets(a.content_id.s)) ELSE PyNone,
          disposition |-> IF Truthy(a.content_id) THEN "inline" ELSE ""]
    ELSE [filename |-> TupleFilename(a),
          type |-> a.ctype,
          content_id |-> PyNone,
          disposition |-> ""]

AttachmentStep(m, uu) ==
    [k \in 1..Len(m.attachments) |-> BuildAttachment(m.attachments[k], uu[k])]

\* line 239
CoerceBody(b) == IF b = "" THEN " " ELSE b

Content(type, value) == [type |-> type, value |-> value]

\* lines 243-245: the alternatives kept, in order
RECURSIVE HtmlAlternatives(_)
HtmlAlternatives(alts) ==
    IF alts = <<>> THEN <<>>
    ELSE IF Head(alts).mimetype = "text/html"
         THEN <<Content(Head(alts).mimetype, Head(alts).content)>>
              \o HtmlAlternatives(Tail(alts))
         ELSE HtmlAlternatives(Tail(alts))

\* variant of ContentStep: every alternative is kept, whatever its subtype
ContentStepKeepsAll(m) ==
    IF m.multi
    THEN <<Content("text/plain", m.body)>>
         \o [k \in 1..Len(m.alternatives) |->
                Content(m.alternatives[k].mimetype, m.alternatives[k].content)]
    ELSE IF m.content_subtype = "html"
         THEN <<Content("text/plain", " "), Content("text/html", m.body)>>
         ELSE <<Content("text/plain", m.body)>>

\* lines 241-250, m being the message after line 239
ContentStep(m) ==
    IF m.multi
    THEN <<Content("text/plain", m.body)>> \o HtmlAlternatives(m.alternatives)
    ELSE IF m.content_subtype = "html"
         THEN <<Content("text/plain", " "), Content("text/html", m.body)>>
         ELSE <<Content("text/plain", m.body)>>

\* lines 256-258
AsmError(a) == IF a.has /\ ~a.group_id THEN "group_id not found in asm" ELSE ""

Raise(kind, text, m) ==
    [raised |-> kind, text |-> text, msg |-> m, payload |-> <<>>]

\* lines 128-275.  lp: the interpreter's parseaddr on lists; uu: the values
\* uuid.uuid4().hex takes, one per attachment position.
BuildSgMail(m, lp, uu) ==
    LET hdr == HeaderStep(m)
        m2 == [m EXCEPT !.body = CoerceBody(m.body)]
    IN IF m.ip_pool_name # Absent /\ PoolNameError(m.ip_pool_name) # ""
       THEN Raise("ValueError", PoolNameError(m.ip_pool_name), m)
       ELSE IF m.send_at # Absent /\ SendAtError(m.send_at) # ""
       THEN Raise("ValueError", SendAtError(m.send_at), m)
       ELSE IF ReplyToError(m.reply_to, hdr.reply_to, lp) # ""
       THEN Raise("ValueError", ReplyToError(m.reply_to, hdr.reply_to, lp), m)
       ELSE IF AsmError(m.asm) # ""
       THEN Raise("KeyError", AsmError(m.asm), m2)
       ELSE [raised |-> "", text |-> "", msg |-> m2,
             payload |-> <<[
                from |-> LET p == ParseEmailAddress(
                                     [list |-> FALSE, items |-> <<m.from_email>>], lp)
                         IN SgEmail(p.addr, p.name),
                subject |-> m.subject,
                to |-> [k \in 1..Len(m.to) |->
                          LET p == ParseEmailAddress(
                                     [list |-> FALSE, items |-> <<m.to[k]>>], lp)
                          IN SgEmail(p.addr, p.name)],
                headers |-> hdr.headers,
                ip_pool_name |-> m.ip_pool_name,
                send_at |-> m.send_at,
                reply_to |-> ReplyToStep(m.reply_to, hdr.reply_to, lp),
                attachments |-> AttachmentStep(m, uu),
                content |-> ContentStep(m2),
                asm |-> m.asm ]>>]

---------------------------------------------------------------------------
(* The messages the properties range over *)

MaxAlts == 2        \* alternatives per message
MaxAttach == 2      \* attachments per message
MaxHeaders == 2     \* entries of extra_headers per message
MaxReplyTo == 2     \* items of a list-valued reply_to

SeqsUpTo(S, n) == UNION {[1..k -> S] : k \in 0..n}

\* "a@x.com", "Ann <a@x.com>", "Bob <a@x.com>", "b@x.com", "<a@x.com>"
AddrA == <<"a", "@", "x">>
AddrAnnA == <<"A", "n", "n", " ", "<", "a", "@", "x", ">">>
AddrBobA == <<"B", "o", "b", " ", "<", "a", "@", "x", ">">>
AddrB == <<"b", "@", "x">>
AddrAngleA == <<"<", "a", "@", "x", ">">>
Addrs == {AddrA, AddrAnnA, AddrBobA, AddrB, AddrAngleA}

ReplyKeys == {"Reply-To", "reply-to"}
OtherHeader == [k |-> "X-Tag", v |-> PyStr(<<"t">>)]
HeaderEntries == [k : ReplyKeys, v : {PyStr(a) : a \in Addrs}] \cup {OtherHeader}

\* a dict: insertion-ordered, keys distinct
IsDict(hs) == \A p, q \in 1..Len(hs) : p # q => hs[p].k # hs[q].k

HeaderDicts == {hs \in SeqsUpTo(HeaderEntries, MaxHeaders) : IsDict(hs)}

NoReplyTo == [has |-> TRUE, list |-> TRUE, items |-> <<>>]  \* Django's default []
ReplyTos ==
    {[has |-> FALSE, list |-> TRUE, items |-> <<>>]}
    \cup {[has |-> TRUE, list |-> FALSE, items |-> <<a>>] : a \in Addrs \cup {<<>>}}
    \cup {[has |-> TRUE, list |-> TRUE, items |-> it] : it \in SeqsUpTo(Addrs, MaxReplyTo)}

PoolLens == {0, 1, 2, 3, 63, 64, 65, 66}
Pools == {Absent, PyNone, PyInt(5)} \cup {PyStr(Rep("p", k)) : k \in PoolLens}

SendAts == {Absent, PyInt(1), PyStr(<<"1">>), PyNone}

NoAsm == [has |-> FALSE, group_id |-> FALSE, groups_to_display |-> FALSE]
Asms == {NoAsm} \cup [has : {TRUE}, group_id : BOOLEAN, groups_to_display : BOOLEAN]

Bodies == {"", " ", "hi"}
AltKinds == {[content |-> "", mimetype |-> "text/html"],
             [content |-> "<p>", mimetype |-> "text/html"],
             [content |-> "amp", mimetype |-> "text/x-amp-html"]}

FileName == <<"f", ".", "t">>
CidBracket == <<"<", "c", ">">>
AttachKinds ==
    [mime : {TRUE}, filename : {PyNone, PyStr(FileName)},
     ctype : {"image/png", "application/x-unknown"},
     content_id : {PyNone, PyStr(CidBracket)}]
    \cup [mime : {FALSE}, filename : {PyNone, PyStr(<<>>), PyStr(FileName)},
          ctype : {"text/plain"}, content_id : {PyNone}]

Hexes == {<<"0", "a">>, <<"f", "f">>}   \* values of uuid.uuid4().hex

BaseMsg ==
    [from_email |-> AddrAnnA, to |-> <<AddrB>>, subject |-> "s", body |-> "hi",
     multi |-> FALSE, content_subtype |-> "plain", alternatives |-> <<>>,
     extra_headers |-> <<>>, reply_to |-> NoReplyTo, ip_pool_name |-> Absent,
     send_at |-> Absent, asm |-> NoAsm, attachments |-> <<>>]

ConflictHeaders == <<[k |-> "Reply-To", v |-> PyStr(AddrA)]>>
ConflictReplyTo == [has |-> TRUE, list |-> TRUE, items |-> <<AddrB>>]

ContentMsgs ==
    {[BaseMsg EXCEPT !.body = b, !.multi = TRUE, !.alternatives = al,
                     !.content_subtype = st, !.asm = a]
        : b \in Bodies, al \in SeqsUpTo(AltKinds, MaxAlts),
          st \in {"plain", "html"}, a \in {NoAsm, [NoAsm EXCEPT !.has = TRUE]}}
    \cup {[BaseMsg EXCEPT !.body = b, !.content_subtype = st, !.asm = a]
        : b \in Bodies, st \in {"plain", "html"},
          a \in {NoAsm, [NoAsm EXCEPT !.has = TRUE]}}

ReplyMsgs ==
    {[BaseMsg EXCEPT !.extra_headers = hs, !.reply_to = r]
        : hs \in HeaderDicts, r \in ReplyTos}

PoolMsgs ==
    {[BaseMsg EXCEPT !.ip_pool_name = p, !.send_at = sa, !.asm = a,
                     !.extra_headers = c[1], !.reply_to = c[2]]
        : p \in Pools, sa \in SendAts, a \in Asms,
          c \in {<<(<<>>), NoReplyTo>>, <<ConflictHeaders, ConflictReplyTo>>}}

AttachMsgs ==
    {[BaseMsg EXCEPT !.attachments = at, !.body = b]
        : at \in SeqsUpTo(AttachKinds, MaxAttach), b \in {"", "hi"}}

BuildMsgs == ContentMsgs \cup ReplyMsgs \cup PoolMsgs \cup AttachMsgs

NotBuilt(m) == [raised |-> "", text |-> "not called", msg |-> m, payload |-> <<>>]

---------------------------------------------------------------------------
(* send_messages *)

MaxBatch == 2       \* messages per call of send_messages
MaxCalls == 2       \* calls of send_messages on the same message objects

StatusAccepted == 202   \* resp.status_code of an accepted request

\* the message objects handed to send_messages
SendMsgs ==
    {[BaseMsg EXCEPT !.body = "", !.extra_headers = <<OtherHeader>>,
                     !.attachments =
        <<[mime |-> TRUE, filename |-> PyNone, ctype |-> "image/png",
           content_id |-> PyNone]>>],
     [BaseMsg EXCEPT !.ip_pool_name = PyStr(<<"p">>)],
     [BaseMsg EXCEPT !.body = "", !.asm = [NoAsm EXCEPT !.has = TRUE]]}

\* what post() returns: the status code and the x-message-id header
\* (Absent: no such header; the header may be present and empty)
MsgId == <<"i", "d">>
Responses == [status_code : {StatusAccepted},
              x_message_id : {Absent, PyStr(<<>>), PyStr(MsgId)}]

\* d[k] = v on an insertion-ordered dict
RECURSIVE SetItem(_, _, _)
SetItem(hs, k, v) ==
    IF hs = <<>> THEN <<[k |-> k, v |-> v]>>
    ELSE IF Head(hs).k = k THEN <<[k |-> k, v |-> v]>> \o Tail(hs)
    ELSE <<Head(hs)>> \o SetItem(Tail(hs), k, v)

HasKey(hs, k) == \E p \in 1..Len(hs) : hs[p].k = k
GetItem(hs, k) == hs[CHOOSE p \in 1..Len(hs) : hs[p].k = k].v

\* variant of Reconcile: message_id is written whenever the header exists
ReconcileIdIfPresent(hs, resp) ==
    LET withStatus == SetItem(hs, "status", PyInt(resp.status_code))
    IN IF resp.x_message_id # Absent
       THEN SetItem(withStatus, "message_id", resp.x_message_id)
       ELSE withStatus

\* lines 112-115: the response folded back into msg.extra_headers
Reconcile(hs, resp) ==
    LET withStatus == SetItem(hs, "status", PyInt(resp.status_code))
    IN IF Truthy(resp.x_message_id)
       THEN SetItem(withStatus, "message_id", resp.x_message_id)
       ELSE withStatus

\* line 116
CountSuccess(n) == n + 1

\* lines 117-119: whether an HTTPError is swallowed
Swallowed(fs) == fs

\* the values uuid.uuid4().hex may take while m is built (line 213)
UuidChoices(m) == [1..Len(m.attachments) -> Hexes]

Entry(k, payload, outcome, resp, prior) ==
    [call |-> call, m |-> k, payload |-> payload, outcome |-> outcome,
     resp |-> resp, prior |-> prior]

NoResponse == [status_code |-> 0, x_message_id |-> Absent]

\* variant of BuildRaises: the call at line 108 sits inside the try block and
\* its exception is swallowed like an HTTPError
BuildRaisesSilenced ==
    /\ pc = "loop" /\ idx <= Len(batch)
    /\ \E uu \in UuidChoices(batch[idx]) :
         LET b == BuildSgMail(batch[idx], listParse, uu)
         IN /\ b.raised # ""
            /\ batch' = [batch EXCEPT ![idx] = b.msg]
            /\ IF failSilently
               THEN idx' = idx + 1 /\ UNCHANGED <<raised, pc>>
               ELSE raised' = b.raised /\ pc' = "raised" /\ UNCHANGED idx
    /\ UNCHANGED <<listParse, batch0, failSilently, success, posts,
                   returned, call>>
    /\ UNCHANGED buildVars /\ UNCHANGED echoVars

\* line 108 raises: the exception leaves send_messages
BuildRaises ==
    /\ pc = "loop" /\ idx <= Len(batch)
    /\ \E uu \in UuidChoices(batch[idx]) :
         LET b == BuildSgMail(batch[idx], listParse, uu)
         IN /\ b.raised # ""
            /\ batch' = [batch EXCEPT ![idx] = b.msg]
            /\ raised' = b.raised
            /\ pc' = "raised"
    /\ UNCHANGED <<listParse, batch0, failSilently, idx, success, posts,
                   returned, call>>
    /\ UNCHANGED buildVars /\ UNCHANGED echoVars

\* lines 108-116: built, posted, answered
PostOk ==
    /\ pc = "loop" /\ idx <= Len(batch)
    /\ \E uu \in UuidChoices(batch[idx]), resp \in Responses :
         LET b == BuildSgMail(batch[idx], listParse, uu)
         IN /\ b.raised = ""
            /\ posts' = Append(posts, Entry(idx, b.payload[1], "ok", resp,
                                            batch[idx].extra_headers))
            /\ batch' = [batch EXCEPT ![idx] =
                  [b.msg EXCEPT !.extra_headers = Reconcile(@, resp)]]
            /\ success' = CountSuccess(success)
            /\ idx' = idx + 1
    /\ UNCHANGED <<listParse, batch0, failSilently, raised, returned, pc, call>>
    /\ UNCHANGED buildVars /\ UNCHANGED echoVars

\* variant of PostErrorSwallowed: the swallowed error ends the loop
PostErrorSwallowedAborts ==
    /\ pc = "loop" /\ idx <= Len(batch)
    /\ Swallowed(failSilently)
    /\ \E uu \in UuidChoices(batch[idx]) :
         LET b == BuildSgMail(batch[idx], listParse, uu)
         IN /\ b.raised = ""
            /\ posts' = Append(posts, Entry(idx, b.payload[1], "HTTPError",
                                            NoResponse, batch[idx].extra_headers))
            /\ batch' = [batch EXCEPT ![idx] = b.msg]
            /\ idx' = Len(batch) + 1
    /\ UNCHANGED <<listParse, batch0, failSilently, success, raised, returned,
                   pc, call>>
    /\ UNCHANGED buildVars /\ UNCHANGED echoVars

\* lines 108-119: built, posted, post() raised HTTPError, fail_silently on
PostErrorSwallowed ==
    /\ pc = "loop" /\ idx <= Len(batch)
    /\ Swallowed(failSilently)
    /\ \E uu \in UuidChoices(batch[idx]) :
         LET b == BuildSgMail(batch[idx], listParse, uu)
         IN /\ b.raised = ""
            /\ posts' = Append(posts, Entry(idx, b.payload[1], "HTTPError",
                                            NoResponse, batch[idx].extra_headers))
            /\ batch' = [batch EXCEPT ![idx] = b.msg]
            /\ idx' = idx + 1
    /\ UNCHANGED <<listParse, batch0, failSilently, success, raised, returned,
                   pc, call>>
    /\ UNCHANGED buildVars /\ UNCHANGED echoVars

\* lines 108-119: built, posted, post() raised HTTPError, fail_silently off
PostErrorRaised ==
    /\ pc = "loop" /\ idx <= Len(batch)
    /\ ~Swallowed(failSilently)
    /\ \E uu \in UuidChoices(batch[idx]) :
         LET b == BuildSgMail(batch[idx], listParse, uu)
         IN /\ b.raised = ""
            /\ posts' = Append(posts, Entry(idx, b.payload[1], "HTTPError",
                                            NoResponse, batch[idx].extra_headers))
            /\ batch' = [batch EXCEPT ![idx] = b.msg]
            /\ raised' = "HTTPError"
            /\ pc' = "raised"
    /\ UNCHANGED <<listParse, batch0, failSilently, idx, success, returned, call>>
    /\ UNCHANGED buildVars /\ UNCHANGED echoVars

\* line 120
Return ==
    /\ pc = "loop" /\ idx > Len(batch)
    /\ returned' = success
    /\ pc' = "returned"
    /\ UNCHANGED <<listParse, batch0, batch, failSilently, idx, success, posts,
                   raised, call>>
    /\ UNCHANGED buildVars /\ UNCHANGED echoVars

\* the caller hands the same message objects to send_messages again
CallAgain ==
    /\ pc \in {"returned", "raised"}
    /\ call < MaxCalls
    /\ call' = call + 1
    /\ idx' = 1 /\ success' = 0 /\ raised' = "" /\ returned' = -1
    /\ pc' = "loop"
    /\ posts' = <<>>
    /\ UNCHANGED <<listParse, batch0, batch, failSilently>>
    /\ UNCHANGED buildVars /\ UNCHANGED echoVars

---------------------------------------------------------------------------
(* echo_to_output_stream, called by concurrent threads *)

NThreads == 2       \* threads calling send_messages
NInsts == 2         \* SendgridBackend instances
EchoBatch == 2      \* messages in each thread's batch
SepLen == 79        \* line 84: '-' * 79

Threads == 1..NThreads
Insts == 1..NInsts
Streams == {"stdout", "other"}   \* sys.stdout, or the stream keyword argument

Write(t, m, part, len) == [t |-> t, m |-> m, part |-> part, len |-> len]

StreamOf(t) == instStream[tInst[t]]

\* line 91: with self._lock (an RLock made per instance at line 72)
Acquire(t) ==
    /\ tPc[t] = "start"
    /\ lockOwner[tInst[t]] \in {0, t}
    /\ lockOwner' = [lockOwner EXCEPT ![tInst[t]] = t]
    /\ tPc' = [tPc EXCEPT ![t] = "text"]
    /\ UNCHANGED <<tInst, instStream, tMsg, stream, submitted>>
    /\ UNCHANGED notEchoVars

\* line 83
WriteText(t) ==
    /\ tPc[t] = "text"
    /\ stream' = [stream EXCEPT ![StreamOf(t)] =
                     Append(@, Write(t, tMsg[t], "text", 1))]
    /\ tPc' = [tPc EXCEPT ![t] = "sep"]
    /\ UNCHANGED <<tInst, instStream, lockOwner, tMsg, submitted>>
    /\ UNCHANGED notEchoVars

\* line 84
WriteSep(t) ==
    /\ tPc[t] = "sep"
    /\ stream' = [stream EXCEPT ![StreamOf(t)] =
                     Append(@, Write(t, tMsg[t], "sep", SepLen))]
    /\ tPc' = [tPc EXCEPT ![t] = "nl"]
    /\ UNCHANGED <<tInst, instStream, lockOwner, tMsg, submitted>>
    /\ UNCHANGED notEchoVars

\* lines 85, 96 and the next turn of the loop at line 94
WriteNl(t) ==
    /\ tPc[t] = "nl"
    /\ stream' = [stream EXCEPT ![StreamOf(t)] =
                     Append(@, Write(t, tMsg[t], "nl", 1))]
    /\ IF tMsg[t] < EchoBatch
       THEN /\ tMsg' = [tMsg EXCEPT ![t] = @ + 1]
            /\ tPc' = [tPc EXCEPT ![t] = "text"]
       ELSE /\ tMsg' = [tMsg EXCEPT ![t] = 1]
            /\ tPc' = [tPc EXCEPT ![t] = "release"]
    /\ UNCHANGED <<tInst, instStream, lockOwner, submitted>>
    /\ UNCHANGED notEchoVars

\* leaving the with block of line 91
Release(t) ==
    /\ tPc[t] = "release"
    /\ lockOwner' = [lockOwner EXCEPT ![tInst[t]] = 0]
    /\ tPc' = [tPc EXCEPT ![t] = "send"]
    /\ UNCHANGED <<tInst, instStream, tMsg, stream, submitted>>
    /\ UNCHANGED notEchoVars

\* lines 107-116: one turn of the send loop
Submit(t) ==
    /\ tPc[t] = "send"
    /\ submitted' = [submitted EXCEPT ![t] = Append(@, tMsg[t])]
    /\ IF tMsg[t] < EchoBatch
       THEN /\ tMsg' = [tMsg EXCEPT ![t] = @ + 1]
            /\ UNCHANGED tPc
       ELSE /\ tPc' = [tPc EXCEPT ![t] = "done"]
            /\ UNCHANGED tMsg
    /\ UNCHANGED <<tInst, instStream, lockOwner, stream>>
    /\ UNCHANGED notEchoVars

---------------------------------------------------------------------------
(* Specifications *)

InitBuildIdle ==
    /\ bMsg0 = BaseMsg /\ bMsg = BaseMsg /\ bOut = NotBuilt(BaseMsg)
    /\ bPc = "idle"

InitSendIdle ==
    /\ batch0 = <<>> /\ batch = <<>> /\ failSilently = FALSE
    /\ idx = 1 /\ success = 0 /\ posts = <<>> /\ raised = ""
    /\ returned = -1 /\ pc = "idle" /\ call = 1

InitEchoIdle ==
    /\ tInst = [t \in Threads |-> 1]
    /\ instStream = [i \in Insts |-> "stdout"]
    /\ lockOwner = [i \in Insts |-> 0]
    /\ tPc = [t \in Threads |-> "idle"]
    /\ tMsg = [t \in Threads |-> 1]
    /\ stream = [s \in Streams |-> <<>>]
    /\ submitted = [t \in Threads |-> <<>>]

ListParses == {"atoms", "first"}

\* send_messages on a batch, echo off
Init ==
    /\ listParse \in ListParses
    /\ batch0 \in SeqsUpTo(SendMsgs, MaxBatch)
    /\ batch = batch0
    /\ failSilently \in BOOLEAN
    /\ idx = 1 /\ success = 0 /\ posts = <<>> /\ raised = ""
    /\ returned = -1 /\ pc = "loop" /\ call = 1
    /\ InitBuildIdle /\ InitEchoIdle

Next ==
    \/ BuildRaises
    \/ PostOk
    \/ PostErrorSwallowed
    \/ PostErrorRaised
    \/ Return
    \/ CallAgain

Spec == Init /\ [][Next]_vars

\* _build_sg_mail on one message
InitBuild ==
    /\ listParse \in ListParses
    /\ bMsg0 \in BuildMsgs
    /\ bMsg = bMsg0
    /\ bOut = NotBuilt(bMsg0)
    /\ bPc = "ready"
    /\ InitSendIdle /\ InitEchoIdle

Build ==
    /\ bPc = "ready"
    /\ \E uu \in UuidChoices(bMsg) :
         /\ bOut' = BuildSgMail(bMsg, listParse, uu)
         /\ bMsg' = bOut'.msg
    /\ bPc' = "built"
    /\ UNCHANGED <<listParse, bMsg0>>
    /\ UNCHANGED sendVars /\ UNCHANGED echoVars

NextBuild == Build

SpecBuild == InitBuild /\ [][NextBuild]_vars

\* threads echoing and sending, echo on
InitEcho ==
    /\ listParse = "atoms"
    /\ tInst \in [Threads -> Insts]
    /\ instStream \in [Insts -> Streams]
    /\ lockOwner = [i \in Insts |-> 0]
    /\ tPc = [t \in Threads |-> "start"]
    /\ tMsg = [t \in Threads |-> 1]
    /\ stream = [s \in Streams |-> <<>>]
    /\ submitted = [t \in Threads |-> <<>>]
    /\ InitBuildIdle /\ InitSendIdle

NextEcho ==
    \E t \in Threads :
        \/ Acquire(t)
        \/ WriteText(t)
        \/ WriteSep(t)
        \/ WriteNl(t)
        \/ Release(t)
        \/ Submit(t)

SpecEcho == InitEcho /\ [][NextEcho]_vars

---------------------------------------------------------------------------
(* Properties of _build_sg_mail, checked under SpecBuild *)

Built == bPc = "built"
BuiltOk == Built /\ bOut.raised = ""
Payload == bOut.payload[1]

\* the identity an address text denotes: <<display name, address>>
Denotes(cs) == ParseAddrStr(cs)

IdentityOf(cs) ==
    [email |-> PyStr(Denotes(cs)[2]),
     name |-> IF Denotes(cs)[1] = <<>> THEN PyNone ELSE PyStr(Denotes(cs)[1])]

ReplyHeaderPositions(m) ==
    {k \in 1..Len(m.extra_headers) :
        m.extra_headers[k].k \in {"Reply-To", "reply-to", "REPLY-TO"}}

\* one Reply-To header, and a reply_to field that is a non-empty string or a
\* one-element list
HeaderAndSingleField(m) ==
    /\ Cardinality(ReplyHeaderPositions(m)) = 1
    /\ m.reply_to.has
    /\ Len(m.reply_to.items) = 1
    /\ m.reply_to.items[1] # <<>>

TheReplyHeader(m) ==
    m.extra_headers[CHOOSE k \in ReplyHeaderPositions(m) : TRUE].v.s

\* the fields other than the reply-to ones pass their own validation
RestValid(m) ==
    /\ m.ip_pool_name = Absent
    /\ m.send_at = Absent
    /\ m.asm.has => m.asm.group_id

\* C1: for a message with a Reply-To header (any letter case) and an explicit
\* reply_to field (a string or a one-element list, with or without a display
\* name): if both denote the same address and display name the build succeeds
\* and the payload's reply_to is that identity; if they differ the build
\* raises ValueError and returns no payload.
C1_ReplyToReconciled ==
    (Built /\ HeaderAndSingleField(bMsg0)) =>
        IF Denotes(TheReplyHeader(bMsg0)) = Denotes(bMsg0.reply_to.items[1])
        THEN RestValid(bMsg0) =>
                /\ bOut.raised = ""
                /\ Payload.reply_to = IdentityOf(bMsg0.reply_to.items[1])
        ELSE bOut.raised = "ValueError" /\ bOut.payload = <<>>

\* a one-element list with a display name, equal to the header, parsed by an
\* interpreter that scans list items as atoms, was built into a payload
C1_Witness ==
    /\ BuiltOk
    /\ listParse = "atoms"
    /\ HeaderAndSingleField(bMsg0)
    /\ bMsg0.reply_to.list
    /\ bMsg0.reply_to.items[1] = AddrAnnA
    /\ TheReplyHeader(bMsg0) = AddrAnnA
    /\ Payload.reply_to = [email |-> PyStr(AddrA), name |-> PyStr(<<"A", "n", "n">>)]

\* C3: every content part of every payload has a non-empty value, whatever
\* the message (plain, html subtype, multi-alternative with any alternatives).
C3_ContentNeverEmpty ==
    BuiltOk => \A k \in 1..Len(Payload.content) : Payload.content[k].value # ""

\* C4: every attachment of every payload has a non-empty filename, for MIME
\* attachments and for (filename, content, mimetype) tuples alike.
C4_FilenameNeverEmpty ==
    BuiltOk => \A k \in 1..Len(Payload.attachments) :
                  /\ Payload.attachments[k].filename.t = "str"
                  /\ Payload.attachments[k].filename.s # <<>>

\* C5: _build_sg_mail leaves the message as it was, whether it returns a
\* payload or raises.
C5_BuildLeavesMessageUnchanged == Built => bMsg = bMsg0

IsHtml(alt) == alt.mimetype = "text/html"

\* the body as the content step reads it: line 239 has replaced '' by ' '
BodyRead(m) == IF m.body = "" THEN " " ELSE m.body

\* C7: the content list is: for a multi-alternative message the plain-text
\* body part, then exactly the text/html alternatives in their order; for a
\* message with content_subtype html a text/plain part ' ' then a text/html
\* part with the body; otherwise one text/plain part with the body.
C7_ContentList ==
    BuiltOk =>
        LET c == Payload.content
            html == SelectSeq(bMsg0.alternatives, IsHtml)
        IN IF bMsg0.multi
           THEN /\ Len(c) = 1 + Len(html)
                /\ c[1] = [type |-> "text/plain", value |-> BodyRead(bMsg0)]
                /\ \A k \in 1..Len(html) :
                      c[k + 1] = [type |-> "text/html", value |-> html[k].content]
           ELSE IF bMsg0.content_subtype = "html"
           THEN c = <<[type |-> "text/plain", value |-> " "],
                      [type |-> "text/html", value |-> BodyRead(bMsg0)]>>
           ELSE c = <<[type |-> "text/plain", value |-> BodyRead(bMsg0)]>>

\* a multi-alternative message with an html and a non-html alternative was
\* built into two parts
C7_Witness ==
    /\ BuiltOk
    /\ bMsg0.multi
    /\ Len(bMsg0.alternatives) = 2
    /\ bMsg0.alternatives[1].mimetype = "text/x-amp-html"
    /\ bMsg0.alternatives[2].mimetype = "text/html"
    /\ Len(Payload.content) = 2

\* C8: for a message that declares ip_pool_name the build succeeds, with the
\* value copied into the payload, if and only if the value is a string of 2
\* to 64 characters; any other value raises ValueError and gives no payload.
C8_PoolName ==
    (Built /\ bMsg0.ip_pool_name # Absent) =>
        LET p == bMsg0.ip_pool_name
            good == p.t = "str" /\ Len(p.s) >= 2 /\ Len(p.s) <= 64
            restValid == /\ bMsg0.send_at.t \in {"absent", "int"}
                         /\ bMsg0.asm.has => bMsg0.asm.group_id
                         /\ bMsg0.reply_to = NoReplyTo
        IN /\ ~good => bOut.raised = "ValueError" /\ bOut.payload = <<>>
           /\ good => /\ bOut.raised = "" => Payload.ip_pool_name = p
                      /\ bOut.raised # "" =>
                            bOut.text \notin {"ip_pool_name must be a string",
                                              "ip_pool_name length"}
                      /\ restValid => bOut.raised = ""

\* a 64-character pool name went into the payload
C8_Witness ==
    /\ BuiltOk
    /\ bMsg0.ip_pool_name.t = "str"
    /\ Len(bMsg0.ip_pool_name.s) = 64
    /\ Payload.ip_pool_name = bMsg0.ip_pool_name

---------------------------------------------------------------------------
(* Properties of send_messages, checked under Spec *)

\* _build_sg_mail returns a payload for m (the uuid values play no part)
MsgBuilds(m) ==
    \A uu \in UuidChoices(m) : BuildSgMail(m, listParse, uu).raised = ""

Oks == {e \in 1..Len(posts) : posts[e].outcome = "ok"}

\* C2: when every message of the batch builds: the messages are submitted
\* once each, in batch order; with fail_silently on, transport errors do not
\* stop the loop and the value returned is the number of submissions that
\* did not raise; with fail_silently off the first transport error leaves
\* send_messages and nothing is submitted after it.
C2_SendLoop ==
    (\A k \in 1..Len(batch) : MsgBuilds(batch[k])) =>
        /\ \A e \in 1..Len(posts) : posts[e].m = e
        /\ failSilently =>
              /\ pc # "raised"
              /\ Len(posts) = idx - 1
              /\ pc = "returned" =>
                    /\ Len(posts) = Len(batch)
                    /\ returned = Cardinality(Oks)
        /\ ~failSilently =>
              \A e \in 1..Len(posts) :
                  posts[e].outcome = "HTTPError" =>
                      /\ e = Len(posts)
                      /\ pc = "raised" /\ raised = "HTTPError"
                      /\ idx = e

\* fail_silently on, the first of two messages met a transport error, the
\* second was submitted and 1 was returned
C2_Witness ==
    /\ failSilently
    /\ pc = "returned"
    /\ Len(batch) = 2 /\ Len(posts) = 2
    /\ posts[1].outcome = "HTTPError"
    /\ posts[2].outcome = "ok"
    /\ returned = 1

\* C9: a message whose build raises a validation error is never handed to
\* the transport client, and send_messages never gets past it or returns:
\* the error leaves send_messages, with fail_silently on as with it off.
C9_ValidationPropagates ==
    \A k \in 1..Len(batch) :
        ~MsgBuilds(batch[k]) =>
            /\ \A e \in 1..Len(posts) : posts[e].m # k
            /\ idx <= k
            /\ pc # "returned"
            /\ (idx = k /\ pc = "raised") => raised \in {"ValueError", "KeyError"}

\* fail_silently on, the first message was submitted and the second one's
\* validation error left send_messages
C9_Witness ==
    /\ failSilently
    /\ pc = "raised" /\ raised = "KeyError"
    /\ idx = 2 /\ Len(posts) = 1
    /\ ~MsgBuilds(batch[2])

IsMetadata(h) == h.k \in {"status", "message_id"}

\* the payload of posts[e] is the one built from the message as first handed
\* in, with the metadata headers of `prior` added after the caller's own
\* (synthesized attachment filenames apart)
CarriesMetadata(e) ==
    \E uu \in UuidChoices(batch0[posts[e].m]) :
        LET first == BuildSgMail(batch0[posts[e].m], listParse, uu).payload[1]
        IN posts[e].payload =
              [first EXCEPT !.headers = @ \o SelectSeq(posts[e].prior, IsMetadata)]

ResentWithMetadata ==
    \A e \in 1..Len(posts) :
        HasKey(posts[e].prior, "status") =>
            /\ HasKey(posts[e].payload.headers, "status")
            /\ HasKey(posts[e].payload.headers, "message_id")
                  <=> HasKey(posts[e].prior, "message_id")
            /\ CarriesMetadata(e)

\* C10 as stated: after a successful submission extra_headers contains
\* status, and message_id exactly when the response has an x-message-id
\* header (a header with an empty value counted either way); a suppressed
\* transport failure leaves extra_headers unchanged; a message sent again
\* carries status (and message_id) as headers of the payload.
C10_MessageIdIffHeader ==
    /\ \A e \in 1..Len(posts) :
          LET h == batch[posts[e].m].extra_headers
              x == posts[e].resp.x_message_id
          IN /\ posts[e].outcome = "ok" =>
                   /\ HasKey(h, "status")
                   /\ \/ HasKey(h, "message_id") <=> x # Absent
                      \/ HasKey(h, "message_id") <=> Truthy(x)
             /\ posts[e].outcome = "HTTPError" => h = posts[e].prior
    /\ ResentWithMetadata

\* C10 as amended: after a successful submission extra_headers contains
\* status, set to the response's status code; message_id is set to the
\* response's x-message-id when that header is present and not empty, and is
\* otherwise left as it was (absent, or the value of an earlier send); a
\* suppressed transport failure leaves extra_headers unchanged; a message
\* sent again carries the status (and message_id) it holds as headers of the
\* payload, after the caller's own.
C10_MessageIdIffNonEmpty ==
    /\ \A e \in 1..Len(posts) :
          LET h == batch[posts[e].m].extra_headers
              p == posts[e].prior
              x == posts[e].resp.x_message_id
          IN /\ posts[e].outcome = "ok" =>
                   /\ HasKey(h, "status")
                   /\ GetItem(h, "status") = PyInt(posts[e].resp.status_code)
                   /\ IF x.t = "str" /\ x.s # <<>>
                      THEN HasKey(h, "message_id") /\ GetItem(h, "message_id") = x
                      ELSE /\ HasKey(h, "message_id") <=> HasKey(p, "message_id")
                           /\ HasKey(p, "message_id") =>
                                 GetItem(h, "message_id") = GetItem(p, "message_id")
             /\ posts[e].outcome = "HTTPError" => h = p
    /\ ResentWithMetadata

\* a message sent before, holding status and message_id, was submitted
\* again, answered without x-message-id, and keeps the earlier message_id
C10_Witness ==
    \E e \in 1..Len(posts) :
        /\ posts[e].call = 2
        /\ posts[e].outcome = "ok"
        /\ posts[e].resp.x_message_id = Absent
        /\ HasKey(posts[e].prior, "message_id")
        /\ HasKey(posts[e].payload.headers, "status")
        /\ HasKey(posts[e].payload.headers, "message_id")
        /\ HasKey(batch[posts[e].m].extra_headers, "message_id")

---------------------------------------------------------------------------
(* Properties of the echo, checked under SpecEcho *)

\* C6: on every stream, the writes of one message by one thread (text,
\* separator, newline) are never split by a write of another thread, whether
\* the threads call one backend instance or two instances writing to the
\* same stream; and a thread submits nothing before its batch is echoed.
C6_EchoSerialized ==
    /\ \A s \in Streams :
          \A p, q \in 1..Len(stream[s]) :
              (/\ p < q
               /\ stream[s][p].t = stream[s][q].t
               /\ stream[s][p].m = stream[s][q].m) =>
                  \A r \in p..q : stream[s][r].t = stream[s][p].t
    /\ \A t \in Threads :
          submitted[t] # <<>> =>
              Cardinality({p \in 1..Len(stream[StreamOf(t)]) :
                              stream[StreamOf(t)][p].t = t}) = 3 * EchoBatch

===========================================================================
